---- MODULE Spec2Model ----
(***************************************************************************)
(* SurfSUP: the check-in registry (services/api), the shared state store   *)
(* and the auth store (services/globalState), the mock WebSocket transport *)
(* (services/websocket) and the check-in workflow of SpotDetailsScreen as  *)
(* one state machine.                                                      *)
(*                                                                         *)
(* The repository holds two revisions of the transport.  The model follows *)
(* the revision with exponential backoff (the one whose getters the status *)
(* provider reads) and takes the public triggerError() hook, the only way  *)
(* to inject a failure from outside, from the other revision.              *)
(*                                                                         *)
(* Timers.  Every setTimeout is an entry of `timers`, kept in the order in *)
(* which the timers were set.  The JavaScript event loop fires timer A     *)
(* before timer B whenever A was set before B with a delay not larger than *)
(* B's; any other order is possible, depending on when the calls were      *)
(* made.  CanFire states exactly that constraint.  An await continuation   *)
(* runs in the same step as the timer callback that resolves it.           *)
(*                                                                         *)
(* Clock.  `now` is what Date.now() reads.  A registry call's latency is   *)
(* longer than a millisecond, so its timer fires only after the clock has  *)
(* moved since the timer was set; calls that resume at the same value of   *)
(* the clock read the same Date.now().                                     *)
(***************************************************************************)
EXTENDS Integers, Sequences, FiniteSets, TLC

\* ---- bounds of the model ------------------------------------------------
\* Pending timers when a caller sets one more (transport; registry; bus), the
\* last clock value, and how many calls callers start.
MaxTimers == 5
MaxApiTimers == 2
MaxClock == 5
MaxCalls == 4
MaxAwaitedCalls == 3
MaxTestCheckIns == 1
MaxBusTimers == 2
MaxSubscribeCalls == 2
MaxElapses == 1

\* ---- program constants --------------------------------------------------
MAX_RECONNECT_ATTEMPTS == 5
RECONNECT_DELAY_FLOOR == 2000
MAX_RECONNECT_DELAY == 30000
CONNECT_LATENCY == 1000
ECHO_LATENCY == 300
COUNT_LATENCY == 300
QUERY_LATENCY == 500
CHECKOUT_LATENCY == 800
CHECKIN_LATENCY == 1000
CONDITIONS_LATENCY == 1000
FORECAST_LATENCY == 1500
CHECKIN_LIFETIME == 7200000
MAX_LOGIN_ATTEMPTS == 5
LOGIN_ATTEMPT_WINDOW == 900000
SESSION_TIMEOUT == 86400000

SURFER_COUNT_UPDATE == "SURFER_COUNT_UPDATE"
CHECK_IN_STATUS_CHANGE == "CHECK_IN_STATUS_CHANGE"
CONNECTION_STATUS == "CONNECTION_STATUS"
WILDCARD == "*"

WebSocketMessageType == {SURFER_COUNT_UPDATE, CHECK_IN_STATUS_CHANGE, CONNECTION_STATUS}
SubscriberKeys == WebSocketMessageType \cup {WILDCARD}

KnownSpots == {"parkpoint", "lesterriver"}
SpotIds == KnownSpots
Users == {"test-user-id", "other-user"}

\* The user every caller in the app passes to the registry.
Callers == {"test-user-id"}

\* Error texts of the transport.
ERR_CONNECT == "Failed to connect to WebSocket server"
ERR_SIMULATED == "Simulated connection error"
ERR_DISCONNECTED == "Disconnected from server"
AttemptText ==
    << "Attempting to reconnect (1/5)", "Attempting to reconnect (2/5)",
       "Attempting to reconnect (3/5)", "Attempting to reconnect (4/5)",
       "Attempting to reconnect (5/5)" >>

\* Subscriber callbacks: one that only receives (cbA), one that calls the
\* unsubscribe function of its own registration from inside the callback
\* (cbSelf), one that calls the unsubscribe function of cbA's registration
\* from inside the callback (cbKick), and one that throws (cbThrow).
Callbacks == {"cbA", "cbSelf"}
PeerCallbacks == {"cbA", "cbKick"}
ThrowCallbacks == {"cbA", "cbThrow"}
AllCallbacks == Callbacks \cup PeerCallbacks \cup ThrowCallbacks
CbKind(cb) ==
    CASE cb = "cbSelf" -> "unsubSelf"
      [] cb = "cbKick" -> "unsubPeer"
      [] cb = "cbThrow" -> "throws"
      [] OTHER -> "plain"

Min(a, b) == IF a < b THEN a ELSE b

VARIABLES
    isConnected,        \* WebSocketService._isConnected
    reconnectAttempts,  \* WebSocketService.reconnectAttempts
    reconnectDelay,     \* WebSocketService.reconnectDelay
    reconnectInterval,  \* WebSocketService.reconnectInterval: "null" or "set"
    subscribers,        \* WebSocketService.subscribers: key -> list of callbacks
    ownKey,             \* the key of the unsubscribe function that cbSelf holds
    handles,            \* the unsubscribe functions subscribe() has returned, in order
    timers,             \* pending setTimeout callbacks, in the order they were set
    globalSurferCounts, \* globalState.globalSurferCounts
    userCheckIns,       \* globalState.userCheckIns
    activeSurferCounts, \* api.activeSurferCounts
    activeCheckIns,     \* api.activeCheckIns: spot -> list of CheckIn records
    now,                \* the clock Date.now() reads
    nowUsed,            \* this clock value was already read for an identifier
    \* ---- history variables (observations, never read by the program) ----
    pubs,               \* the broadcasts made by the last step
    ev,                 \* the last completed operation and its outcome
    failRun,            \* connection failures since the last success
    gone,               \* callbacks that unsubscribed their only registration in-callback
    subCalls,           \* subscribe() calls made so far, per callback
    retryPayloads,      \* payloads broadcast by failures that scheduled a retry
    callerDisconnected, \* disconnect() was called and connect() not yet again
    firedAfterDisconnect, \* a reconnect timer fired while callerDisconnected
    created,            \* identifiers checkInToSpot has returned
    checkedOut,         \* identifiers checkOutFromSpot has returned true for
    calls,              \* registry calls started so far
    sinceReset,         \* no check-in has completed since the last reset
    screen,             \* SpotDetailsScreen: its spot and its useState values
    prompt,             \* the check-in the "Already Checked In" alert asks about
    run,                \* the workflow run in progress, as its caller sees it
    auth                \* useAuthStore: the state of the auth store

transportVars == << isConnected, reconnectAttempts, reconnectDelay, reconnectInterval >>
busVars == << subscribers, ownKey, handles >>
storeVars == << globalSurferCounts, userCheckIns >>
histVars == << pubs, ev, failRun, gone, subCalls, retryPayloads, callerDisconnected,
               firedAfterDisconnect >>
registryVars == << activeSurferCounts, activeCheckIns, now, nowUsed >>
registryHist == << created, checkedOut, calls, sinceReset >>
screenVars == << screen, prompt, run >>
appVars == << registryVars, registryHist, screenVars >>
vars == << transportVars, busVars, timers, storeVars, histVars, appVars, auth >>

\* ---- messages -----------------------------------------------------------
\* One record shape for the three payloads; a field a payload does not have
\* holds "" / -1 / FALSE.
ConnectionStatusMessage(connected, error, attempt, delay) ==
    [ type |-> CONNECTION_STATUS, connected |-> connected, error |-> error,
      reconnectAttempt |-> attempt, reconnectDelay |-> delay,
      spotId |-> "", count |-> -1, userId |-> "", isCheckedIn |-> FALSE ]

SurferCountUpdateMessage(spotId, count) ==
    [ type |-> SURFER_COUNT_UPDATE, connected |-> FALSE, error |-> "",
      reconnectAttempt |-> -1, reconnectDelay |-> -1,
      spotId |-> spotId, count |-> count, userId |-> "", isCheckedIn |-> FALSE ]

CheckInStatusMessage(userId, spotId, isCheckedIn) ==
    [ type |-> CHECK_IN_STATUS_CHANGE, connected |-> FALSE, error |-> "",
      reconnectAttempt |-> -1, reconnectDelay |-> -1,
      spotId |-> spotId, count |-> -1, userId |-> userId, isCheckedIn |-> isCheckedIn ]

NoMessage == SurferCountUpdateMessage("", -1)

\* ---- timers -------------------------------------------------------------
\* A pending setTimeout: its callback (kind, with the arguments of the call it
\* belongs to), its delay, whether reconnectInterval names it, the await
\* continuation its callback resumes (cont), and whether it was set at the
\* current value of the clock (fresh).
Timer(kind, delay, held, msg) ==
    [ kind |-> kind, delay |-> delay, held |-> held, msg |-> msg,
      userId |-> "", spotId |-> "", id |-> 0, cont |-> "", fresh |-> FALSE ]

ApiTimer(kind, delay, userId, spotId, id, cont) ==
    [ Timer(kind, delay, FALSE, NoMessage) EXCEPT
        !.userId = userId, !.spotId = spotId, !.id = id, !.cont = cont, !.fresh = TRUE ]

ConnectTimer == Timer("connect", CONNECT_LATENCY, FALSE, NoMessage)
\* The attempt a reconnect timer starts: connect() called by the retry.
RetryConnectTimer == [ ConnectTimer EXCEPT !.cont = "retry" ]
ReconnectTimer(delay) == Timer("reconnect", delay, TRUE, NoMessage)
EchoTimer(msg) == Timer("echo", ECHO_LATENCY, FALSE, msg)

\* Timer i may be the next to fire: no timer set before it is due earlier.
CanFire(i) ==
    /\ i \in 1..Len(timers)
    /\ \A j \in 1..(i - 1) : timers[j].delay > timers[i].delay

RemoveAt(s, i) == SubSeq(s, 1, i - 1) \o SubSeq(s, i + 1, Len(s))

\* clearInterval(this.reconnectInterval): cancels the timer the handle names.
ClearHeld(ts) == SelectSeq(ts, LAMBDA t : ~t.held)

\* A new reconnect timer takes over the handle; an older one stays armed.
Unhold(ts) == [ i \in 1..Len(ts) |-> [ ts[i] EXCEPT !.held = FALSE ] ]

\* ---- publish / subscribe ------------------------------------------------
IndexOf(s, x) ==
    IF \E i \in 1..Len(s) : s[i] = x
    THEN CHOOSE i \in 1..Len(s) : s[i] = x /\ \A j \in 1..(i - 1) : s[j] # x
    ELSE 0

\* Mutant: unsubscribing drops every registration of the key.
Unsubscribe_clearsKey(subs, key, cb) == [ subs EXCEPT ![key] = << >> ]

\* The function subscribe() returns: removes the first occurrence of the
\* callback from the list of its key.
Unsubscribe(subs, key, cb) ==
    LET index == IndexOf(subs[key], cb)
    IN  IF index > 0 THEN [ subs EXCEPT ![key] = RemoveAt(subs[key], index) ] ELSE subs

\* The unsubscribe function cbKick holds: the one that the latest
\* subscribe(key, cbA) call returned (0: there was no such call).
PeerHandle ==
    LET hs == { h \in 1..Len(handles) : handles[h].cb = "cbA" }
    IN  IF hs = {} THEN 0 ELSE CHOOSE h \in hs : \A g \in hs : g <= h

\* What running callback cb does to the subscriber lists.
InvokeCallback(subs, cb) ==
    CASE CbKind(cb) = "unsubSelf" -> Unsubscribe(subs, ownKey, cb)
      [] CbKind(cb) = "unsubPeer" /\ PeerHandle > 0 ->
             Unsubscribe(subs, handles[PeerHandle].key, handles[PeerHandle].cb)
      [] OTHER -> subs

\* Mutant: broadcastMessage calls the callbacks without try/catch.
TryCallback_rethrows(cb) == IF CbKind(cb) = "throws" THEN "thrown" ELSE "returned"

\* try { callback(message) } catch (error) { console.error(...) }: how the
\* call of cb ends for the forEach around it.
TryCallback(cb) == IF CbKind(cb) = "throws" THEN "logged" ELSE "returned"

\* The list broadcastMessage iterates: a copy taken before the first call.
Snapshot(subs, type) == subs[type] \o subs[WILDCARD]

\* The callbacks registered for a message of this type.
Registered(subs, type, cb) ==
    \E k \in 1..Len(Snapshot(subs, type)) : Snapshot(subs, type)[k] = cb

\* forEach over the copy, from position i on.  st holds the subscriber lists
\* as the callbacks leave them and what the publish has done so far: the
\* callbacks called, those whose exception was logged, those called while
\* they had no registration left for the message (late), and whether an
\* exception ended the loop (thrown).
RECURSIVE ForEachCallback(_, _, _)
ForEachCallback(snapshot, i, st) ==
    IF i > Len(snapshot) \/ st.thrown THEN st
    ELSE LET cb == snapshot[i]
             after == InvokeCallback(st.subs, cb)
             single == CbKind(cb) = "unsubSelf" /\ subCalls[cb] = 1
             outcome == TryCallback(cb)
         IN  ForEachCallback(snapshot, i + 1,
                 [ st EXCEPT
                     !.subs = after,
                     !.invoked = Append(@, cb),
                     !.gone = IF single THEN @ \cup {cb} ELSE @,
                     !.logged = IF outcome = "logged" THEN @ \cup {cb} ELSE @,
                     !.late = IF Registered(st.subs, st.type, cb) THEN @ ELSE @ \cup {cb},
                     !.thrown = (outcome = "thrown") ])

\* broadcastMessage on bus state b = [subs, gone, pubs]; the result records
\* the publish: the message, the list at its start, the callbacks called in
\* order, those called although they had unsubscribed earlier (stale) or
\* during this publish (late), and how exceptions ended.
BroadcastMessage(b, message) ==
    LET snapshot == Snapshot(b.subs, message.type)
        done == ForEachCallback(snapshot, 1,
                    [ subs |-> b.subs, type |-> message.type, invoked |-> << >>,
                      gone |-> b.gone, logged |-> {}, late |-> {}, thrown |-> FALSE ])
    IN  [ subs |-> done.subs,
          gone |-> done.gone,
          pubs |-> Append(b.pubs,
                     [ msg |-> message, before |-> b.subs, snapshot |-> snapshot,
                       invoked |-> done.invoked,
                       stale |-> { done.invoked[k] : k \in 1..Len(done.invoked) } \cap b.gone,
                       late |-> done.late, logged |-> done.logged,
                       thrown |-> done.thrown ]) ]

\* An exception left the last broadcastMessage of bus state b.
Thrown(b) == Len(b.pubs) > 0 /\ b.pubs[Len(b.pubs)].thrown

Bus == [ subs |-> subscribers, gone |-> gone, pubs |-> << >> ]

SetBus(b) ==
    /\ subscribers' = b.subs
    /\ gone' = b.gone
    /\ pubs' = b.pubs

\* ---- history ------------------------------------------------------------
Event(op, k, before, sched, res) ==
    [ op |-> op, k |-> k, before |-> before, sched |-> sched, res |-> res,
      userId |-> "", spotId |-> "", id |-> 0, count |-> 0, cont |-> "" ]

\* The completion of a registry call: its arguments and what it returned
\* (res: a boolean result or "a record was returned"; count: a number).
ApiEvent(op, userId, spotId, id, res, count) ==
    [ Event(op, 0, 0, -1, res) EXCEPT
        !.userId = userId, !.spotId = spotId, !.id = id, !.count = count ]

NoEvent == Event("none", 0, 0, -1, FALSE)

\* The completion of a registry call that resumes the await continuation cont.
Resumed(event, cont) == [ event EXCEPT !.cont = cont ]

\* The position of a failure in its run of consecutive failures; every
\* failure after the one that exhausts the retries counts as that one.
CountFailure(n) == Min(n + 1, MAX_RECONNECT_ATTEMPTS + 1)

\* ---- the transport (WebSocketService) -----------------------------------
\* Math.random() < 0.2 && this.reconnectAttempts === 0: a connection attempt
\* may fail only while the attempt counter is 0.
MayFail(attempts) == attempts = 0

\* this.reconnectAttempts < this.MAX_RECONNECT_ATTEMPTS
ShouldRetry(attempts) == attempts < MAX_RECONNECT_ATTEMPTS

\* Mutant: the retry delay never grows.
NextReconnectDelay_fixed(delay) == delay

\* Mutant: the retry delay doubles without a cap.
NextReconnectDelay_uncapped(delay) == delay * 2

\* Math.min(this.reconnectDelay * 2, this.MAX_RECONNECT_DELAY)
NextReconnectDelay(delay) == Min(delay * 2, MAX_RECONNECT_DELAY)

\* Mutant: a success leaves the backoff delay where the failures took it.
DelayOnSuccess_kept(delay) == delay

\* The value connect() stores in reconnectDelay on success.
DelayOnSuccess(delay) == RECONNECT_DELAY_FLOOR

\* The value connect() stores in reconnectAttempts on success.
AttemptsOnSuccess(attempts) == 0

\* handleConnectionError(error), with ts the timers left pending.
handleConnectionError(error, ts) ==
    LET b1 == BroadcastMessage(Bus, ConnectionStatusMessage(FALSE, error, -1, -1))
        retry == ShouldRetry(reconnectAttempts) /\ ~Thrown(b1)
        attempt == reconnectAttempts + 1
        b2 == IF retry
              THEN BroadcastMessage(b1,
                       ConnectionStatusMessage(FALSE, AttemptText[attempt], attempt,
                                               reconnectDelay))
              ELSE b1
        \* the statements after the second broadcast are reached
        scheduled == retry /\ ~Thrown(b2)
    IN  /\ isConnected' = FALSE
        /\ reconnectAttempts' = IF retry THEN attempt ELSE reconnectAttempts
        /\ reconnectInterval' = IF scheduled THEN "set" ELSE reconnectInterval
        /\ timers' = IF scheduled THEN Append(Unhold(ts), ReconnectTimer(reconnectDelay))
                      ELSE ts
        /\ reconnectDelay' = IF scheduled THEN NextReconnectDelay(reconnectDelay)
                             ELSE reconnectDelay
        /\ SetBus(b2)
        /\ failRun' = CountFailure(failRun)
        /\ retryPayloads' = IF scheduled
                            THEN retryPayloads \cup { b2.pubs[k].msg : k \in 1..Len(b2.pubs) }
                            ELSE retryPayloads
        /\ ev' = Event("fail", CountFailure(failRun), reconnectAttempts,
                       IF scheduled THEN reconnectDelay ELSE -1, FALSE)

\* connect(): a caller (App, the status provider, a screen) starts an attempt.
Connect ==
    /\ Len(timers) < MaxTimers
    /\ timers' = Append(timers, ConnectTimer)
    /\ callerDisconnected' = FALSE
    /\ firedAfterDisconnect' = FALSE
    /\ UNCHANGED auth
    /\ pubs' = << >>
    /\ ev' = NoEvent
    /\ UNCHANGED << appVars, retryPayloads, transportVars, busVars, storeVars, failRun, gone, subCalls >>

\* The attempt's timer fires and the attempt fails.
ConnectFail ==
    \E i \in 1..Len(timers) :
        /\ CanFire(i)
        /\ timers[i].kind = "connect"
        /\ MayFail(reconnectAttempts)
        /\ handleConnectionError(ERR_CONNECT, RemoveAt(timers, i))
        /\ UNCHANGED << appVars, ownKey, handles, storeVars, subCalls, callerDisconnected,
                        firedAfterDisconnect, auth >>

\* The attempt's timer fires and the attempt succeeds.
ConnectSuccess ==
    \E i \in 1..Len(timers) :
        /\ CanFire(i)
        /\ timers[i].kind = "connect"
        /\ isConnected' = TRUE
        /\ reconnectAttempts' = AttemptsOnSuccess(reconnectAttempts)
        /\ reconnectDelay' = DelayOnSuccess(reconnectDelay)
        /\ SetBus(BroadcastMessage(Bus, ConnectionStatusMessage(TRUE, "", -1, -1)))
        /\ timers' = RemoveAt(timers, i)
        /\ failRun' = 0
        /\ ev' = Event("connected", 0, reconnectAttempts, reconnectDelay, TRUE)
        /\ UNCHANGED << appVars, retryPayloads, reconnectInterval, ownKey, handles, storeVars, subCalls,
                        callerDisconnected, firedAfterDisconnect, auth >>

\* The retry timer set by handleConnectionError fires: it calls connect(),
\* which sets the timer of its attempt.
ReconnectFires(attempt) ==
    \E i \in 1..Len(timers) :
        /\ CanFire(i)
        /\ timers[i].kind = "reconnect"
        /\ timers' = Append(RemoveAt(timers, i), attempt)
        /\ firedAfterDisconnect' = callerDisconnected
        /\ UNCHANGED auth
        /\ pubs' = << >>
        /\ ev' = NoEvent
        /\ UNCHANGED << appVars, retryPayloads, transportVars, busVars, storeVars, failRun, gone, subCalls,
                        callerDisconnected >>

ReconnectFire == ReconnectFires(ConnectTimer)

\* The same step, with the attempt told apart from those callers start.
RetryFire == ReconnectFires(RetryConnectTimer)

\* disconnect()
Disconnect ==
    /\ callerDisconnected' = TRUE
    /\ firedAfterDisconnect' = FALSE
    /\ UNCHANGED auth
    /\ ev' = NoEvent
    /\ IF ~isConnected
       THEN /\ pubs' = << >>
            /\ UNCHANGED << transportVars, subscribers, gone, timers >>
       ELSE /\ isConnected' = FALSE
            /\ IF reconnectInterval = "set"
               THEN /\ timers' = ClearHeld(timers)
                    /\ reconnectInterval' = "null"
               ELSE UNCHANGED << timers, reconnectInterval >>
            /\ SetBus(BroadcastMessage(Bus,
                   ConnectionStatusMessage(FALSE, ERR_DISCONNECTED, -1, -1)))
            /\ UNCHANGED << reconnectAttempts, reconnectDelay >>
    /\ UNCHANGED << ownKey, handles, storeVars, failRun, subCalls, retryPayloads, appVars >>

\* triggerError(message)
TriggerError ==
    /\ Len(timers) < MaxTimers \/ ~ShouldRetry(reconnectAttempts)
    /\ handleConnectionError(ERR_SIMULATED, timers)
    /\ UNCHANGED << appVars, ownKey, handles, storeVars, subCalls, callerDisconnected, firedAfterDisconnect, auth >>

RECURSIVE SumOver(_, _)
SumOver(f, S) ==
    IF S = {} THEN 0 ELSE LET x == CHOOSE y \in S : TRUE IN f[x] + SumOver(f, S \ {x})

SubscribeCalls == SumOver(subCalls, AllCallbacks)

\* subscribe(type, callback) by a component that keeps the returned function
\* to itself.
Subscribe(cb) ==
    \E key \in SubscriberKeys :
        /\ SubscribeCalls < MaxSubscribeCalls
        /\ subscribers' = [ subscribers EXCEPT ![key] = Append(@, cb) ]
        /\ ownKey' = IF CbKind(cb) = "unsubSelf" THEN key ELSE ownKey
        /\ subCalls' = [ subCalls EXCEPT ![cb] = @ + 1 ]
        /\ gone' = gone \ {cb}
        /\ pubs' = << >>
        /\ ev' = NoEvent
        /\ UNCHANGED << appVars, retryPayloads, transportVars, timers, storeVars, failRun,
                        handles, callerDisconnected, firedAfterDisconnect, auth >>

\* Such a component runs the function a subscribe(key, cb) call returned to
\* it.  A call that finds nothing to remove changes nothing and is left out.
CallUnsubscribe ==
    \E key \in SubscriberKeys, cb \in AllCallbacks :
        /\ IndexOf(subscribers[key], cb) > 0
        /\ subscribers' = Unsubscribe(subscribers, key, cb)
        /\ pubs' = << >>
        /\ ev' = NoEvent
        /\ UNCHANGED << appVars, retryPayloads, transportVars, ownKey, handles, timers, storeVars, failRun, gone, subCalls,
                        callerDisconnected, firedAfterDisconnect, auth >>

\* The function a subscribe(key, cb) call returns, as the model follows it
\* for the callers below; used: a caller has run it.
Handle(key, cb) == [ key |-> key, cb |-> cb, used |-> FALSE ]

\* subscribe(type, callback) by a caller whose returned functions are
\* followed one by one, and may be handed to other callbacks (cbKick).
SubscribePeer(cb) ==
    \E key \in SubscriberKeys :
        /\ SubscribeCalls < MaxSubscribeCalls
        /\ subscribers' = [ subscribers EXCEPT ![key] = Append(@, cb) ]
        /\ handles' = Append(handles, Handle(key, cb))
        /\ subCalls' = [ subCalls EXCEPT ![cb] = @ + 1 ]
        /\ gone' = gone \ {cb}
        /\ pubs' = << >>
        /\ ev' = NoEvent
        /\ UNCHANGED << appVars, retryPayloads, transportVars, timers, storeVars, failRun,
                        ownKey, callerDisconnected, firedAfterDisconnect, auth >>

\* The caller runs the function that the h-th of these subscribe calls
\* returned, for the first time or again.
CallHandle ==
    \E h \in 1..Len(handles) :
        /\ subscribers' = Unsubscribe(subscribers, handles[h].key, handles[h].cb)
        /\ handles' = [ handles EXCEPT ![h].used = TRUE ]
        /\ pubs' = << >>
        /\ ev' = Event("unsubscribe", h, 0, -1, handles[h].used)
        /\ UNCHANGED << appVars, retryPayloads, transportVars, ownKey, timers, storeVars,
                        failRun, gone, subCalls, callerDisconnected, firedAfterDisconnect, auth >>

\* ---- the shared state store (globalState) -------------------------------
\* obj[key] = value on a JavaScript object: the key is added when missing.
Put(f, k, v) == [ x \in (DOMAIN f) \cup {k} |-> IF x = k THEN v ELSE f[x] ]

\* obj[key] || fallback
GetOr(f, k, fallback) == IF k \in DOMAIN f THEN f[k] ELSE fallback

updateGlobalSurferCount(counts, spotId, count) == Put(counts, spotId, count)

updateUserCheckedInStatus(flags, spotId, isCheckedIn) ==
    IF isCheckedIn
    THEN [ id \in DOMAIN flags |-> (id = spotId) ]
    ELSE Put(flags, spotId, isCheckedIn)

getGlobalSurferCount(spotId) == GetOr(globalSurferCounts, spotId, 0)

isUserCheckedInAt(spotId) == GetOr(userCheckIns, spotId, FALSE)

\* The spot identifiers the store is called with: the keys it starts with
\* and one it has never seen.
StoreSpots == KnownSpots \cup {"unknown-spot"}

\* Frame of a direct call of one of the store's exported functions.
storeFrame ==
    << transportVars, busVars, timers, appVars, auth, failRun, gone, subCalls,
       retryPayloads, callerDisconnected, firedAfterDisconnect >>

\* A call of the exported updateUserCheckedInStatus(spotId, isCheckedIn).
SetUserCheckedIn ==
    \E spotId \in StoreSpots, isCheckedIn \in BOOLEAN :
        /\ userCheckIns' = updateUserCheckedInStatus(userCheckIns, spotId, isCheckedIn)
        /\ pubs' = << >>
        /\ ev' = [ Event("updateUserCheckedInStatus", 0, 0, -1, isCheckedIn)
                      EXCEPT !.spotId = spotId ]
        /\ UNCHANGED << globalSurferCounts, storeFrame >>

\* A call of the exported updateGlobalSurferCount(spotId, count).
SetGlobalSurferCount ==
    \E spotId \in StoreSpots, count \in 0..MaxTestCheckIns :
        /\ globalSurferCounts' = updateGlobalSurferCount(globalSurferCounts, spotId, count)
        /\ pubs' = << >>
        /\ ev' = [ Event("updateGlobalSurferCount", 0, 0, -1, TRUE)
                      EXCEPT !.spotId = spotId, !.count = count ]
        /\ UNCHANGED << userCheckIns, storeFrame >>

\* ---- send and its simulated round trip ----------------------------------
\* Messages a caller outside the registry hands to send().
TestMessages ==
    { SurferCountUpdateMessage("parkpoint", 1),
      CheckInStatusMessage("test-user-id", "parkpoint", TRUE) }

\* Mutant: send() hands the message to the round trip in any state.
send_always(ts, connected, message) == Append(ts, EchoTimer(message))

\* send(message): the timers after the call.
send(ts, connected, message) ==
    IF connected THEN Append(ts, EchoTimer(message)) ELSE ts

Send ==
    \E message \in TestMessages :
        /\ Len(timers) < MaxTimers
        /\ timers' = send(timers, isConnected, message)
        /\ pubs' = << >>
        /\ ev' = Event("send", 0, 0, -1, isConnected)
        /\ UNCHANGED << appVars, retryPayloads, transportVars, busVars, storeVars, failRun, gone, subCalls,
                        callerDisconnected, firedAfterDisconnect, auth >>

\* SpotDetailsScreen's CHECK_IN_STATUS_CHANGE subscriber, which the screen
\* registers when it mounts; NoScreen is the screen not mounted.
NoScreen ==
    [ spotId |-> "", isCheckedIn |-> FALSE, checkInId |-> 0, isLoading |-> FALSE ]

ScreenOnMessage(sc, message) ==
    IF /\ sc.spotId # ""
       /\ message.type = CHECK_IN_STATUS_CHANGE
       /\ message.userId = "test-user-id"
       /\ message.spotId = sc.spotId
    THEN [ sc EXCEPT !.isCheckedIn = message.isCheckedIn,
                     !.checkInId = IF message.isCheckedIn THEN @ ELSE 0 ]
    ELSE sc

\* The echo timer of a sent message fires: handleSurferCountUpdate or
\* handleCheckInStatusChange.
EchoFire ==
    \E i \in 1..Len(timers) :
        /\ CanFire(i)
        /\ timers[i].kind = "echo"
        /\ LET message == timers[i].msg
           IN  /\ IF message.type = SURFER_COUNT_UPDATE
                  THEN /\ globalSurferCounts' =
                            updateGlobalSurferCount(globalSurferCounts, message.spotId,
                                                    message.count)
                       /\ UNCHANGED userCheckIns
                  ELSE /\ userCheckIns' =
                            updateUserCheckedInStatus(userCheckIns, message.spotId,
                                                      message.isCheckedIn)
                       /\ UNCHANGED globalSurferCounts
               /\ SetBus(BroadcastMessage(Bus, message))
               /\ screen' = ScreenOnMessage(screen, message)
        /\ timers' = RemoveAt(timers, i)
        /\ ev' = NoEvent
        /\ UNCHANGED << registryVars, registryHist, prompt, run, retryPayloads, transportVars, ownKey, handles, failRun, subCalls,
                        callerDisconnected, firedAfterDisconnect, auth >>

\* ---- the check-in registry (api) ----------------------------------------
\* The order in which for..in visits the keys of activeCheckIns.
SpotOrder == << "parkpoint", "lesterriver" >>

\* The record checkInToSpot builds at the clock value id: it takes its
\* identifier and its expiration time from the same reading of the clock.
CheckIn(id, userId, spotId) ==
    [ id |-> id, userId |-> userId, spotId |-> spotId, isActive |-> TRUE,
      expiresAt |-> id + CHECKIN_LIFETIME ]

\* null
NoCheckIn ==
    [ id |-> 0, userId |-> "", spotId |-> "", isActive |-> FALSE, expiresAt |-> 0 ]

\* Timers of registry calls, as opposed to those of the transport.
ApiKinds == { "checkIn", "checkOut", "getSurferCount", "getActiveCheckInForUser",
              "getActiveCheckInForUserAnywhere", "loadData" }

ApiPending == { i \in 1..Len(timers) : timers[i].kind \in ApiKinds }

\* A registry timer fires only after the clock has moved past its start.
ApiCanFire(i, kind) ==
    /\ CanFire(i)
    /\ timers[i].kind = kind
    /\ ~timers[i].fresh

MatchesId_any(checkin, checkInId) == TRUE

\* checkin => checkin.id === checkInId
MatchesId(checkin, checkInId) == checkin.id = checkInId

\* Mutant: any active record matches, whoever it belongs to.
MatchesUser_anyone(checkin, userId) == checkin.isActive

\* checkin => checkin.userId === userId && checkin.isActive
MatchesUser(checkin, userId) == checkin.userId = userId /\ checkin.isActive

\* Array.findIndex over the outcomes of its test, with 0 for "not found".
FindIndex(hits) ==
    IF \E i \in 1..Len(hits) : hits[i]
    THEN CHOOSE i \in 1..Len(hits) : hits[i] /\ \A j \in 1..(i - 1) : ~hits[j]
    ELSE 0

\* The outcome of each test on the records of a list.
IdHits(list, checkInId) == [ i \in 1..Len(list) |-> MatchesId(list[i], checkInId) ]
UserHits(list, userId) == [ i \in 1..Len(list) |-> MatchesUser(list[i], userId) ]

\* The first spot, in for..in order, that hit holds for ("" when there is none).
FirstSpot(hit) ==
    LET hits == { k \in 1..Len(SpotOrder) :
                    SpotOrder[k] \in DOMAIN hit /\ hit[SpotOrder[k]] }
    IN  IF hits = {} THEN ""
        ELSE SpotOrder[CHOOSE k \in hits : \A m \in hits : k <= m]

\* getActiveCheckInForUser(userId, spotId), after its latency.
getActiveCheckInForUser(lists, userId, spotId) ==
    IF spotId \notin DOMAIN lists THEN NoCheckIn
    ELSE LET index == FindIndex(UserHits(lists[spotId], userId))
         IN  IF index > 0 THEN lists[spotId][index] ELSE NoCheckIn

\* getActiveCheckInForUserAnywhere(userId), after its latency.
getActiveCheckInForUserAnywhere(lists, userId) ==
    LET spotId == FirstSpot([ s \in DOMAIN lists |->
                                FindIndex(UserHits(lists[s], userId)) > 0 ])
    IN  IF spotId = "" THEN NoCheckIn ELSE getActiveCheckInForUser(lists, userId, spotId)

\* The count getSurferCount returns and writes back into activeSurferCounts.
CurrentCount(counts, spotId) == GetOr(counts, spotId, 0)

\* if (activeSurferCounts[spotId] > 0) activeSurferCounts[spotId]--
Decrement(count) == IF count > 0 THEN count - 1 ELSE count

\* The clock may still move by single ticks: the ticks since the last long
\* stretch of time are below the bound.
ClockLeft == now % CHECKIN_LIFETIME < MaxClock

\* No workflow run in progress.
NoRun == [ active |-> FALSE, pre |-> 0, mixed |-> FALSE ]

\* The number of active records of a user over all spots' lists.
ActiveCount(lists, userId) ==
    SumOver([ s \in DOMAIN lists |->
                Len(SelectSeq(lists[s], LAMBDA c : MatchesUser(c, userId))) ],
            DOMAIN lists)

\* Registry calls that change the registry and are still pending.
MutationPending ==
    \E i \in ApiPending : timers[i].kind \in { "checkIn", "checkOut" }

\* A call from outside the workflow run starts or completes during the run.
Mixed(r, cont) == IF r.active /\ cont = "api" THEN [ r EXCEPT !.mixed = TRUE ] ELSE r

\* The run ends: handleCheckIn returns to its caller.
Ended(r) == [ r EXCEPT !.active = FALSE ]

Started(timer) ==
    /\ ClockLeft
    /\ calls < MaxCalls
    /\ calls' = calls + 1
    /\ timers' = Append(timers, timer)
    /\ pubs' = << >>
    /\ ev' = NoEvent
    /\ UNCHANGED << transportVars, busVars, storeVars, registryVars, failRun, gone,
                    subCalls, retryPayloads, callerDisconnected, firedAfterDisconnect, auth,
                    created, checkedOut, sinceReset >>

StartCall(timer) ==
    /\ Len(timers) < MaxApiTimers
    /\ Started(timer)
    /\ run' = Mixed(run, "api")
    /\ UNCHANGED << screen, prompt >>

\* A caller of the exported API (a test, another screen) starts a call.
CallCheckIn ==
    \E userId \in Callers, spotId \in SpotIds :
        StartCall(ApiTimer("checkIn", CHECKIN_LATENCY, userId, spotId, 0, "api"))

CallCheckOut ==
    \E id \in created \cup {0} :
        StartCall(ApiTimer("checkOut", CHECKOUT_LATENCY, "", "", id, "api"))

CallGetSurferCount ==
    \E spotId \in SpotIds :
        StartCall(ApiTimer("getSurferCount", COUNT_LATENCY, "", spotId, 0, "api"))

\* Calls of the exported API on behalf of a given user.
CallCheckInFor(userId) ==
    \E spotId \in SpotIds :
        StartCall(ApiTimer("checkIn", CHECKIN_LATENCY, userId, spotId, 0, "api"))

CallGetActiveCheckInForUserAnywhere(userId) ==
    StartCall(ApiTimer("getActiveCheckInForUserAnywhere", QUERY_LATENCY, userId, "", 0,
                       "api"))

\* DebugScreen.testCheckIn(spotId): a check-in that bypasses the workflow.
testCheckIn ==
    \E spotId \in SpotIds :
        /\ Len(timers) < MaxTimers
        /\ calls < MaxTestCheckIns
        /\ Started(ApiTimer("checkIn", CHECKIN_LATENCY, "test-user-id", spotId, 0, "api"))
        /\ run' = Mixed(run, "api")
        /\ UNCHANGED << screen, prompt >>

\* Long stretches of time in which nothing is pending: the app is left alone
\* for d milliseconds.
Elapse(d) ==
    /\ timers = << >>
    /\ now < MaxElapses * d
    /\ now' = now + d
    /\ nowUsed' = FALSE
    /\ pubs' = << >>
    /\ ev' = NoEvent
    /\ UNCHANGED << transportVars, busVars, timers, storeVars, activeSurferCounts,
                    screenVars, activeCheckIns, failRun, gone, subCalls, retryPayloads,
                    callerDisconnected, firedAfterDisconnect, auth, registryHist >>

\* Time passes.  A tick that nothing could observe is left out: the clock
\* moves only when a pending call waits for it or its value has been used.
Tick ==
    /\ ClockLeft
    /\ nowUsed \/ \E i \in ApiPending : timers[i].fresh
    /\ now' = now + 1
    /\ nowUsed' = FALSE
    /\ pubs' = << >>
    /\ ev' = NoEvent
    /\ timers' = [ i \in 1..Len(timers) |-> [ timers[i] EXCEPT !.fresh = FALSE ] ]
    /\ UNCHANGED << transportVars, busVars, storeVars, activeSurferCounts, screenVars,
                    activeCheckIns, failRun, gone, subCalls, retryPayloads,
                    callerDisconnected, firedAfterDisconnect, auth, registryHist >>

\* const newCount = await getSurferCount(spotId), in handleCheckIn.
CountCall(spotId) == ApiTimer("getSurferCount", COUNT_LATENCY, "", spotId, 0, "count")

\* checkInToSpot(userId, spotId), after its latency; then, in handleCheckIn,
\* setIsCheckedIn(true), setCheckInId(checkIn.id) and the count is fetched.
FireCheckIn ==
    \E i \in 1..Len(timers) :
        /\ ApiCanFire(i, "checkIn")
        /\ LET t == timers[i]
               checkIn == CheckIn(now, t.userId, t.spotId)
               counts == Put(activeSurferCounts, t.spotId,
                             GetOr(activeSurferCounts, t.spotId, 0) + 1)
               sent1 == send(RemoveAt(timers, i), isConnected,
                             SurferCountUpdateMessage(t.spotId, counts[t.spotId]))
               sent2 == send(sent1, isConnected,
                             CheckInStatusMessage(t.userId, t.spotId, TRUE))
           IN  /\ activeCheckIns' =
                      Put(activeCheckIns, t.spotId,
                          Append(GetOr(activeCheckIns, t.spotId, << >>), checkIn))
               /\ activeSurferCounts' = counts
               /\ userCheckIns' = updateUserCheckedInStatus(userCheckIns, t.spotId, TRUE)
               /\ created' = created \cup {checkIn.id}
               /\ sinceReset' = FALSE
               /\ nowUsed' = TRUE
               /\ ev' = Resumed(ApiEvent("checkIn", t.userId, t.spotId, checkIn.id, TRUE, 0),
                                t.cont)
               /\ run' = Mixed(run, t.cont)
               /\ IF t.cont = "api"
                  THEN /\ timers' = sent2
                       /\ UNCHANGED screen
                  ELSE /\ timers' = Append(sent2, CountCall(t.spotId))
                       /\ screen' = [ screen EXCEPT !.isCheckedIn = TRUE,
                                                    !.checkInId = checkIn.id ]
        /\ pubs' = << >>
        /\ UNCHANGED << transportVars, busVars, globalSurferCounts, now, failRun, gone,
                        subCalls, retryPayloads, callerDisconnected, firedAfterDisconnect, auth,
                        checkedOut, calls, prompt >>

\* The count-0 message resetAllCheckInsAndCounts sends for each of the first
\* n spots, in key order.
RECURSIVE SendZeroCounts(_, _, _)
SendZeroCounts(ts, connected, n) ==
    IF n = 0 THEN ts
    ELSE send(SendZeroCounts(ts, connected, n - 1), connected,
              SurferCountUpdateMessage(SpotOrder[n], 0))

\* resetAllCheckInsAndCounts(): every count to 0 in the registry and in the
\* store, every list emptied, and a count of 0 sent for every spot.
resetAllCheckInsAndCounts ==
    /\ Len(timers) + Len(SpotOrder) <= MaxTimers
    /\ activeSurferCounts' = [ s \in DOMAIN activeSurferCounts |-> 0 ]
    /\ globalSurferCounts' =
           [ s \in (DOMAIN globalSurferCounts) \cup (DOMAIN activeSurferCounts) |->
               IF s \in DOMAIN activeSurferCounts THEN 0 ELSE globalSurferCounts[s] ]
    /\ activeCheckIns' = [ s \in DOMAIN activeCheckIns |-> << >> ]
    /\ timers' = SendZeroCounts(timers, isConnected, Len(SpotOrder))
    /\ sinceReset' = TRUE
    /\ pubs' = << >>
    /\ ev' = Event("reset", 0, 0, -1, isConnected)
    /\ UNCHANGED << transportVars, busVars, userCheckIns, now, nowUsed, failRun, gone,
                    subCalls, retryPayloads, callerDisconnected, firedAfterDisconnect, auth,
                    created, checkedOut, calls, screenVars >>

\* Mutant: the "Yes" branch checks in whatever the check-out returned.
AfterCheckOut_unchecked(t, found, ts) ==
    IF t.cont = "api"
    THEN /\ timers' = ts
         /\ run' = Mixed(run, t.cont)
         /\ UNCHANGED screen
    ELSE IF ~found /\ t.cont = "checkOut"
    THEN /\ timers' = ts
         /\ run' = Ended(run)
         /\ screen' = [ screen EXCEPT !.isLoading = FALSE ]
    ELSE IF t.cont = "checkOut"
    THEN /\ timers' = Append(ts, CountCall(t.spotId))
         /\ screen' = [ screen EXCEPT !.isCheckedIn = FALSE, !.checkInId = 0 ]
         /\ UNCHANGED run
    ELSE /\ timers' = Append(ts, ApiTimer("checkIn", CHECKIN_LATENCY, "test-user-id",
                                           t.spotId, 0, "checkIn"))
         /\ UNCHANGED << screen, run >>

\* What handleCheckIn does with the result of an awaited checkOutFromSpot:
\* the check-out flow ("checkOut") clears the screen's check-in and fetches
\* the count; the "Yes" branch of the alert ("switch") goes on to check in.
AfterCheckOut(t, found, ts) ==
    IF t.cont = "api"
    THEN /\ timers' = ts
         /\ run' = Mixed(run, t.cont)
         /\ UNCHANGED screen
    ELSE IF ~found
    THEN /\ timers' = ts
         /\ run' = Ended(run)
         /\ screen' = [ screen EXCEPT !.isLoading = FALSE ]
    ELSE IF t.cont = "checkOut"
    THEN /\ timers' = Append(ts, CountCall(t.spotId))
         /\ screen' = [ screen EXCEPT !.isCheckedIn = FALSE, !.checkInId = 0 ]
         /\ UNCHANGED run
    ELSE /\ timers' = Append(ts, ApiTimer("checkIn", CHECKIN_LATENCY, "test-user-id",
                                           t.spotId, 0, "checkIn"))
         /\ UNCHANGED << screen, run >>

\* checkOutFromSpot(checkInId), after its latency.
FireCheckOut ==
    \E i \in 1..Len(timers) :
        /\ ApiCanFire(i, "checkOut")
        /\ LET t == timers[i]
               foundSpotId == FirstSpot([ s \in DOMAIN activeCheckIns |->
                                            FindIndex(IdHits(activeCheckIns[s], t.id)) > 0 ])
               found == foundSpotId # ""
           IN  /\ IF found
                  THEN LET list == activeCheckIns[foundSpotId]
                           index == FindIndex(IdHits(list, t.id))
                           foundCheckIn == list[index]
                           counts == [ activeSurferCounts EXCEPT
                                         ![foundSpotId] = Decrement(@) ]
                           sent1 == send(RemoveAt(timers, i), isConnected,
                                       SurferCountUpdateMessage(foundSpotId,
                                                                counts[foundSpotId]))
                           sent2 == send(sent1, isConnected,
                                       CheckInStatusMessage(foundCheckIn.userId,
                                                            foundSpotId, FALSE))
                       IN  /\ activeCheckIns' =
                                  [ activeCheckIns EXCEPT
                                      ![foundSpotId] = RemoveAt(list, index) ]
                           /\ userCheckIns' =
                                  updateUserCheckedInStatus(userCheckIns, foundSpotId, FALSE)
                           /\ activeSurferCounts' = counts
                           /\ AfterCheckOut(t, TRUE, sent2)
                  ELSE /\ AfterCheckOut(t, FALSE, RemoveAt(timers, i))
                       /\ UNCHANGED << activeCheckIns, userCheckIns, activeSurferCounts >>
               /\ checkedOut' = (IF found THEN checkedOut \cup {t.id} ELSE checkedOut)
               /\ ev' = Resumed(ApiEvent("checkOut", "", foundSpotId, t.id, found, 0), t.cont)
        /\ pubs' = << >>
        /\ UNCHANGED << transportVars, busVars, globalSurferCounts, now, nowUsed, failRun,
                        gone, subCalls, retryPayloads, callerDisconnected,
                        firedAfterDisconnect, auth, created, calls, sinceReset, prompt >>

\* getSurferCount(spotId), after its latency; in handleCheckIn it is the last
\* await before the finally block.
FireGetSurferCount ==
    \E i \in 1..Len(timers) :
        /\ ApiCanFire(i, "getSurferCount")
        /\ LET t == timers[i]
               currentCount == CurrentCount(globalSurferCounts, t.spotId)
           IN  /\ activeSurferCounts' = Put(activeSurferCounts, t.spotId, currentCount)
               /\ ev' = Resumed(ApiEvent("getSurferCount", "", t.spotId, 0, TRUE,
                                         currentCount), t.cont)
               /\ IF t.cont = "api"
                  THEN /\ run' = Mixed(run, t.cont)
                       /\ UNCHANGED screen
                  ELSE /\ run' = Ended(run)
                       /\ screen' = [ screen EXCEPT !.isLoading = FALSE ]
        /\ timers' = RemoveAt(timers, i)
        /\ pubs' = << >>
        /\ UNCHANGED << transportVars, busVars, storeVars, activeCheckIns, now, nowUsed,
                        failRun, gone, subCalls, retryPayloads, callerDisconnected,
                        firedAfterDisconnect, auth, registryHist, prompt >>

\* getActiveCheckInForUser(userId, spotId), after its latency, as
\* checkExistingCheckIn awaits it: the debugging query follows.
FireGetActiveCheckInForUser ==
    \E i \in 1..Len(timers) :
        /\ ApiCanFire(i, "getActiveCheckInForUser")
        /\ LET t == timers[i]
               activeCheckIn == getActiveCheckInForUser(activeCheckIns, t.userId, t.spotId)
           IN  /\ timers' = Append(RemoveAt(timers, i),
                                   ApiTimer("getActiveCheckInForUserAnywhere", QUERY_LATENCY,
                                            t.userId, t.spotId, activeCheckIn.id,
                                            "checkExisting"))
               /\ ev' = Resumed(ApiEvent("getActiveCheckInForUser", t.userId, t.spotId,
                                         activeCheckIn.id, activeCheckIn.isActive, 0), t.cont)
        /\ pubs' = << >>
        /\ UNCHANGED << transportVars, busVars, storeVars, registryVars, registryHist,
                        screenVars, failRun, gone, subCalls, retryPayloads,
                        callerDisconnected, firedAfterDisconnect, auth >>

\* getActiveCheckInForUserAnywhere(userId), after its latency.  At the end of
\* checkExistingCheckIn ("checkExisting") the screen takes over the result of
\* the first query, which the timer carries; in handleCheckIn ("query") a
\* check-in at another spot raises the alert, anything else checks in.
FireGetActiveCheckInForUserAnywhere ==
    \E i \in 1..Len(timers) :
        /\ ApiCanFire(i, "getActiveCheckInForUserAnywhere")
        /\ LET t == timers[i]
               existingCheckIn == getActiveCheckInForUserAnywhere(activeCheckIns, t.userId)
               rest == RemoveAt(timers, i)
           IN  /\ ev' = Resumed(ApiEvent("getActiveCheckInForUserAnywhere", t.userId,
                                         existingCheckIn.spotId, existingCheckIn.id,
                                         existingCheckIn.isActive, 0), t.cont)
               /\ IF t.cont = "api"
                  THEN /\ timers' = rest
                       /\ UNCHANGED << screen, prompt >>
                  ELSE IF t.cont = "checkExisting"
                  THEN /\ screen' = [ screen EXCEPT !.isCheckedIn = (t.id # 0),
                                                    !.checkInId = t.id ]
                       /\ timers' = rest
                       /\ UNCHANGED prompt
                  ELSE IF existingCheckIn.isActive /\ existingCheckIn.spotId # t.spotId
                  THEN /\ screen' = [ screen EXCEPT !.isLoading = FALSE ]
                       /\ prompt' = existingCheckIn
                       /\ timers' = rest
                  ELSE /\ timers' = Append(rest, ApiTimer("checkIn", CHECKIN_LATENCY,
                                                          t.userId, t.spotId, 0, "checkIn"))
                       /\ UNCHANGED << screen, prompt >>
        /\ pubs' = << >>
        /\ UNCHANGED << transportVars, busVars, storeVars, registryVars, registryHist, run,
                        failRun, gone, subCalls, retryPayloads, callerDisconnected,
                        firedAfterDisconnect, auth >>

\* ---- SpotDetailsScreen --------------------------------------------------
\* The screen mounts for a spot: its state starts from the shared store,
\* loadData and checkExistingCheckIn start, and the transport is connected
\* if it is not.
OpenSpot ==
    \E spotId \in SpotIds :
        /\ screen = NoScreen
        /\ Len(timers) + 2 < MaxTimers
        /\ ClockLeft
        /\ screen' = [ spotId |-> spotId,
                       isCheckedIn |-> isUserCheckedInAt(spotId),
                       checkInId |-> 0, isLoading |-> TRUE ]
        /\ LET conditions == ApiTimer("loadData", CONDITIONS_LATENCY, "", spotId, 0,
                                      "conditions")
               query == ApiTimer("getActiveCheckInForUser", QUERY_LATENCY,
                                 "test-user-id", spotId, 0, "checkExisting")
               started == Append(Append(timers, conditions), query)
           IN  timers' = IF isConnected THEN started ELSE Append(started, ConnectTimer)
        /\ callerDisconnected' = (callerDisconnected /\ isConnected)
        /\ firedAfterDisconnect' = (firedAfterDisconnect /\ isConnected)
        /\ UNCHANGED auth
        /\ pubs' = << >>
        /\ ev' = NoEvent
        /\ UNCHANGED << transportVars, busVars, storeVars, registryVars, registryHist,
                        prompt, run, failRun, gone, subCalls, retryPayloads >>

\* loadData: fetchSurfConditions resolves and fetchSurfForecast starts, or
\* fetchSurfForecast resolves and the finally block clears isLoading.
FireLoadData ==
    \E i \in 1..Len(timers) :
        /\ ApiCanFire(i, "loadData")
        /\ LET t == timers[i]
           IN  IF t.cont = "conditions"
               THEN /\ timers' = Append(RemoveAt(timers, i),
                                        ApiTimer("loadData", FORECAST_LATENCY, "", t.spotId,
                                                 0, "forecast"))
                    /\ UNCHANGED screen
               ELSE /\ timers' = RemoveAt(timers, i)
                    /\ screen' = [ screen EXCEPT !.isLoading = FALSE ]
        /\ pubs' = << >>
        /\ ev' = NoEvent
        /\ UNCHANGED << transportVars, busVars, storeVars, registryVars, registryHist,
                        prompt, run, failRun, gone, subCalls, retryPayloads,
                        callerDisconnected, firedAfterDisconnect, auth >>

\* handleCheckIn(): the button is pressed (it is disabled while isLoading, and
\* an alert on display covers it; the alert is taken to appear at once, the
\* lookup of the other spot's name before it left out).  A press that does nothing (checked in
\* without a known identifier) is left out.
handleCheckIn ==
    /\ screen # NoScreen
    /\ ~screen.isLoading
    /\ prompt = NoCheckIn
    /\ screen.isCheckedIn => screen.checkInId # 0
    /\ Len(timers) < MaxTimers
    /\ ClockLeft
    /\ screen' = [ screen EXCEPT !.isLoading = TRUE ]
    /\ timers' = Append(timers,
                    IF screen.isCheckedIn
                    THEN ApiTimer("checkOut", CHECKOUT_LATENCY, "", screen.spotId,
                                  screen.checkInId, "checkOut")
                    ELSE ApiTimer("getActiveCheckInForUserAnywhere", QUERY_LATENCY,
                                  "test-user-id", screen.spotId, 0, "query"))
    /\ run' = [ active |-> TRUE, pre |-> ActiveCount(activeCheckIns, "test-user-id"),
                mixed |-> (run.active \/ MutationPending) ]
    /\ pubs' = << >>
    /\ ev' = NoEvent
    /\ UNCHANGED << transportVars, busVars, storeVars, registryVars, registryHist,
                    prompt, failRun, gone, subCalls, retryPayloads,
                    callerDisconnected, firedAfterDisconnect, auth >>

\* "Yes" on the alert: check out of the other spot, then check in here.
ConfirmYes ==
    /\ prompt # NoCheckIn
    /\ screen' = [ screen EXCEPT !.isLoading = TRUE ]
    /\ timers' = Append(timers, ApiTimer("checkOut", CHECKOUT_LATENCY, "", screen.spotId,
                                         prompt.id, "switch"))
    /\ prompt' = NoCheckIn
    /\ pubs' = << >>
    /\ ev' = NoEvent
    /\ UNCHANGED << transportVars, busVars, storeVars, registryVars, registryHist,
                    run, failRun, gone, subCalls, retryPayloads,
                    callerDisconnected, firedAfterDisconnect, auth >>

\* "No" on the alert.
ConfirmNo ==
    /\ prompt # NoCheckIn
    /\ prompt' = NoCheckIn
    /\ run' = Ended(run)
    /\ pubs' = << >>
    /\ ev' = NoEvent
    /\ UNCHANGED << transportVars, busVars, timers, storeVars, registryVars, registryHist,
                    screen, failRun, gone, subCalls, retryPayloads,
                    callerDisconnected, firedAfterDisconnect, auth >>

\* ---- specifications -----------------------------------------------------
\* ---- the auth store (useAuthStore) ---------------------------------------
\* null, for a token or a user.
Null == -1

\* initialState; loadTime is the Date.now() read when the module was loaded.
initialState(loadTime) ==
    [ user |-> Null, token |-> Null, refreshToken |-> Null,
      isAuthenticated |-> FALSE, isLoading |-> FALSE, error |-> "",
      lastActivity |-> loadTime, loginAttempts |-> 0, lastLoginAttempt |-> 0 ]

\* Mutant: the session expires at the timeout, not after it.
SessionExpired_atTimeout(n, lastActivity) == n - lastActivity >= SESSION_TIMEOUT

\* now - lastActivity > SESSION_TIMEOUT
SessionExpired(n, lastActivity) == n - lastActivity > SESSION_TIMEOUT

\* logout(): set({isLoading: true, error: null}), then set(initialState).
\* Nothing is awaited, so both run within the call; set() merges, and
\* initialState names every field, with the load time as lastActivity.
logout(a) == [ field \in DOMAIN a |-> initialState(0)[field] ]

\* The parts of the auth store left alone by the actions of the store.
authFrame ==
    << transportVars, busVars, timers, storeVars, activeSurferCounts, activeCheckIns,
       now, registryHist, screenVars, failRun, gone, subCalls, retryPayloads,
       callerDisconnected, firedAfterDisconnect >>

\* login(email, password): refused when too many attempts were made within
\* the window; otherwise the mock login succeeds, with a user and tokens
\* named after the clock.
Login ==
    /\ auth' =
          IF /\ auth.loginAttempts >= MAX_LOGIN_ATTEMPTS
             /\ now - auth.lastLoginAttempt < LOGIN_ATTEMPT_WINDOW
          THEN [ auth EXCEPT !.error = "Too many login attempts. Please try again later.",
                             !.isLoading = FALSE,
                             !.loginAttempts = @ + 1,
                             !.lastLoginAttempt = now ]
          ELSE [ auth EXCEPT !.user = now, !.token = now, !.refreshToken = now,
                             !.isAuthenticated = TRUE, !.isLoading = FALSE,
                             !.lastActivity = now, !.loginAttempts = 0,
                             !.lastLoginAttempt = now, !.error = "" ]
    /\ nowUsed' = TRUE
    /\ pubs' = << >>
    /\ ev' = Event("login", 0, 0, -1, TRUE)
    /\ UNCHANGED authFrame

Logout ==
    /\ auth' = logout(auth)
    /\ pubs' = << >>
    /\ ev' = Event("logout", 0, 0, -1, TRUE)
    /\ UNCHANGED << authFrame, nowUsed >>

\* updateLastActivity(): logs out when the session has expired, else records
\* the activity.  The event keeps lastActivity as it was read (before),
\* whether the user was authenticated (k) and whether logout ran (res).
updateLastActivity ==
    /\ auth' = IF SessionExpired(now, auth.lastActivity)
               THEN logout(auth)
               ELSE [ auth EXCEPT !.lastActivity = now ]
    /\ nowUsed' = TRUE
    /\ pubs' = << >>
    /\ ev' = Event("updateLastActivity", IF auth.isAuthenticated THEN 1 ELSE 0,
                   auth.lastActivity, -1, SessionExpired(now, auth.lastActivity))
    /\ UNCHANGED authFrame

\* The token pairs the server may answer a refresh request with.
ServerTokens == { -2, -3 }

\* refreshAuthToken(): with no refresh token it throws before any request
\* and the catch logs out; otherwise api.post('/auth/refresh') is awaited.
\* The pending request is kept with the other pending callbacks; it is not
\* a timer, so it may complete at any time.
refreshAuthToken ==
    /\ Len(timers) < MaxApiTimers
    /\ IF auth.refreshToken = Null
       THEN /\ auth' = logout(auth)
            /\ timers' = timers
            /\ ev' = Event("refreshAuthToken", 0, Null, -1, FALSE)
       ELSE /\ auth' = auth
            /\ timers' = Append(timers, [ Timer("refresh", 0, FALSE, NoMessage) EXCEPT
                                            !.id = auth.refreshToken ])
            /\ ev' = NoEvent
    /\ pubs' = << >>
    /\ UNCHANGED << transportVars, busVars, storeVars, registryVars, registryHist,
                    screenVars, failRun, gone, subCalls, retryPayloads,
                    callerDisconnected, firedAfterDisconnect >>

\* The refresh request completes: the returned pair replaces the tokens and
\* lastActivity is set, or the request is rejected and the catch logs out.
\* The event keeps whether the request succeeded (res) and the pair (before).
FireRefresh ==
    \E i \in 1..Len(timers), ok \in BOOLEAN, pair \in ServerTokens :
        /\ timers[i].kind = "refresh"
        /\ auth' = IF ok
                   THEN [ auth EXCEPT !.token = pair, !.refreshToken = pair,
                                      !.lastActivity = now ]
                   ELSE logout(auth)
        /\ timers' = RemoveAt(timers, i)
        /\ nowUsed' = (nowUsed \/ ok)
        /\ pubs' = << >>
        /\ ev' = Event("refreshAuthToken", 1, IF ok THEN pair ELSE Null, -1, ok)
        /\ UNCHANGED << transportVars, busVars, storeVars, activeSurferCounts,
                        activeCheckIns, now, registryHist, screenVars, failRun, gone,
                        subCalls, retryPayloads, callerDisconnected,
                        firedAfterDisconnect >>

Init ==
    /\ isConnected = FALSE
    /\ reconnectAttempts = 0
    /\ reconnectDelay = RECONNECT_DELAY_FLOOR
    /\ reconnectInterval = "null"
    /\ subscribers = [ key \in SubscriberKeys |-> << >> ]
    /\ ownKey = WILDCARD
    /\ handles = << >>
    /\ timers = << >>
    /\ globalSurferCounts = [ s \in KnownSpots |-> 0 ]
    /\ userCheckIns = [ s \in KnownSpots |-> FALSE ]
    /\ pubs = << >>
    /\ ev = NoEvent
    /\ failRun = 0
    /\ gone = {}
    /\ subCalls = [ cb \in AllCallbacks |-> 0 ]
    /\ retryPayloads = {}
    /\ callerDisconnected = FALSE
    /\ firedAfterDisconnect = FALSE
    /\ screen = NoScreen
    /\ prompt = NoCheckIn
    /\ run = NoRun
    /\ activeSurferCounts = [ s \in KnownSpots |-> 0 ]
    /\ activeCheckIns = [ s \in KnownSpots |-> << >> ]
    /\ now = 0
    /\ nowUsed = FALSE
    /\ created = {}
    /\ checkedOut = {}
    /\ calls = 0
    /\ sinceReset = TRUE
    /\ auth = initialState(0)

\* The connection life cycle: attempts, failures, retries with backoff.
NextBackoff ==
    \/ Connect
    \/ ConnectFail
    \/ ConnectSuccess
    \/ ReconnectFire
    \/ Disconnect
    \/ TriggerError

SpecBackoff == Init /\ [][NextBackoff]_vars

\* Publish/subscribe over a transport that connects, disconnects and echoes.
NextBus ==
    \/ \E cb \in Callbacks : Subscribe(cb)
    \/ CallUnsubscribe
    \/ (Len(timers) < MaxBusTimers /\ Connect)
    \/ ConnectSuccess
    \/ (isConnected /\ Disconnect)
    \/ (Len(timers) < MaxBusTimers /\ Send)
    \/ EchoFire

SpecBus == Init /\ [][NextBus]_vars

\* Publish/subscribe with callbacks that unsubscribe one another or throw,
\* and callers that run the functions subscribe() returned to them.
NextPeers ==
    \/ \E cb \in PeerCallbacks : SubscribePeer(cb)
    \/ CallHandle
    \/ (Len(timers) < MaxBusTimers /\ Connect)
    \/ ConnectSuccess
    \/ (isConnected /\ Disconnect)
    \/ (Len(timers) < MaxBusTimers /\ Send)
    \/ EchoFire

SpecPeers == Init /\ [][NextPeers]_vars

\* A callback that throws, under the broadcasts of the connection life cycle:
\* success, failure, the retry announcement and disconnect.  Failures arise
\* from connect() only.
NextThrow ==
    \/ \E cb \in ThrowCallbacks : Subscribe(cb)
    \/ (Len(timers) < MaxBusTimers /\ Connect)
    \/ ConnectFail
    \/ ConnectSuccess
    \/ RetryFire
    \/ (isConnected /\ Disconnect)

SpecThrow == Init /\ [][NextThrow]_vars

\* The registry under calls of its exported API, over a transport that
\* connects and disconnects.
NextRegistry ==
    \/ CallCheckIn
    \/ CallCheckOut
    \/ CallGetSurferCount
    \/ Tick
    \/ FireCheckIn
    \/ FireCheckOut
    \/ FireGetSurferCount
    \/ (Len(timers) < MaxApiTimers /\ Connect)
    \/ ConnectSuccess
    \/ (isConnected /\ Disconnect)
    \/ EchoFire

SpecRegistry == Init /\ [][NextRegistry]_vars

\* The check-in workflow of SpotDetailsScreen, with the debug screen's
\* check-in beside it; App connects the transport, and so does the screen
\* when it mounts and finds it not connected.
NextWorkflow ==
    \/ (Len(timers) < MaxApiTimers /\ Connect)
    \/ OpenSpot
    \/ FireLoadData
    \/ handleCheckIn
    \/ ConfirmYes
    \/ ConfirmNo
    \/ testCheckIn
    \/ Tick
    \/ FireCheckIn
    \/ FireCheckOut
    \/ FireGetSurferCount
    \/ FireGetActiveCheckInForUser
    \/ FireGetActiveCheckInForUserAnywhere
    \/ ConnectFail
    \/ ConnectSuccess
    \/ ReconnectFire
    \/ EchoFire

SpecWorkflow == Init /\ [][NextWorkflow]_vars

\* The registry when every call is awaited before the next one starts.
Awaited == ApiPending = {} /\ calls < MaxAwaitedCalls

NextAwaited ==
    \/ (Awaited /\ CallCheckIn)
    \/ (Awaited /\ CallCheckOut)
    \/ (Awaited /\ CallGetSurferCount)
    \/ Tick
    \/ FireCheckIn
    \/ FireCheckOut
    \/ FireGetSurferCount
    \/ (Len(timers) < MaxApiTimers /\ Connect)
    \/ ConnectSuccess
    \/ (isConnected /\ Disconnect)
    \/ EchoFire

SpecAwaited == Init /\ [][NextAwaited]_vars

\* The auth store under logins, logouts and activity, with the app left
\* alone for the length of a session in between.
NextSession ==
    \/ Login
    \/ Logout
    \/ updateLastActivity
    \/ refreshAuthToken
    \/ FireRefresh
    \/ Tick
    \/ Elapse(SESSION_TIMEOUT)

SpecSession == Init /\ [][NextSession]_vars

\* The lookup of a user's check-in over the records of several users, every
\* call awaited.
NextLookup ==
    \/ \E userId \in Users : (Awaited /\ CallCheckInFor(userId))
    \/ (Awaited /\ CallCheckOut)
    \/ \E userId \in Users : (ApiPending = {} /\ CallGetActiveCheckInForUserAnywhere(userId))
    \/ Tick
    \/ FireCheckIn
    \/ FireCheckOut
    \/ FireGetActiveCheckInForUserAnywhere

SpecLookup == Init /\ [][NextLookup]_vars

\* The registry under overlapping calls over a transport that is connected
\* before the first call and stays connected: every message is accepted.
NextOverlap ==
    \/ (~isConnected /\ timers = << >> /\ Connect)
    \/ ConnectSuccess
    \/ (isConnected /\ CallCheckIn)
    \/ (isConnected /\ CallCheckOut)
    \/ (isConnected /\ CallGetSurferCount)
    \/ Tick
    \/ FireCheckIn
    \/ FireCheckOut
    \/ FireGetSurferCount
    \/ EchoFire

SpecOverlap == Init /\ [][NextOverlap]_vars

\* The alert's check-out of the other spot is pending.
SwitchPending == \E i \in 1..Len(timers) : timers[i].cont = "switch"

\* The cross-spot workflow, with the Reset button of HomeScreen pressed while
\* the check-out of the other spot is pending.
NextSwitch ==
    \/ OpenSpot
    \/ FireLoadData
    \/ handleCheckIn
    \/ ConfirmYes
    \/ ConfirmNo
    \/ testCheckIn
    \/ Tick
    \/ FireCheckIn
    \/ FireCheckOut
    \/ FireGetSurferCount
    \/ FireGetActiveCheckInForUser
    \/ FireGetActiveCheckInForUserAnywhere
    \/ ConnectSuccess
    \/ EchoFire
    \/ (SwitchPending /\ resetAllCheckInsAndCounts)

SpecSwitch == Init /\ [][NextSwitch]_vars

\* Check-ins and resets of the registry over a transport that connects and
\* disconnects.
NextReset ==
    \/ (Awaited /\ CallCheckIn)
    \/ Tick
    \/ FireCheckIn
    \/ resetAllCheckInsAndCounts
    \/ (Len(timers) < MaxApiTimers /\ Connect)
    \/ ConnectSuccess
    \/ (isConnected /\ Disconnect)
    \/ EchoFire

SpecReset == Init /\ [][NextReset]_vars

\* Check-ins that outlive their expiration time: the debug screen checks
\* in, the app is left alone for the lifetime of a check-in, and the spot's
\* screen is opened.
NextExpiry ==
    \/ testCheckIn
    \/ Tick
    \/ Elapse(CHECKIN_LIFETIME)
    \/ FireCheckIn
    \/ OpenSpot
    \/ FireLoadData
    \/ FireGetActiveCheckInForUser
    \/ FireGetActiveCheckInForUserAnywhere
    \/ ConnectSuccess
    \/ EchoFire

SpecExpiry == Init /\ [][NextExpiry]_vars

\* The shared state store under direct calls of its update functions.
NextStore ==
    \/ SetUserCheckedIn
    \/ SetGlobalSurferCount

SpecStore == Init /\ [][NextStore]_vars

\* ---- claims -------------------------------------------------------------
\* The identifiers of the records held in the active lists.
ActiveIds ==
    UNION { { activeCheckIns[s][i].id : i \in 1..Len(activeCheckIns[s]) } :
            s \in DOMAIN activeCheckIns }

\* The messages handed to the transport and not yet delivered.
EchoTimers(ts) == SelectSeq(ts, LAMBDA t : t.kind = "echo")

\* C1: with every call awaited, in any connection state, getSurferCount(spotId)
\* returns exactly the number of records in that spot's active list.
C1_CountMatchesActiveList ==
    ev.op = "getSurferCount" => ev.count = Len(activeCheckIns[ev.spotId])

\* C2: after a fully awaited run of the check-in workflow or check-out,
\* started when the user had at most one active record, the user has at most
\* one active record over all spots, also when the run is for the spot the
\* user is already checked in at.
C2_OneActivePerUser ==
    (/\ ev.cont \in { "checkIn", "checkOut", "switch", "count" }
     /\ ~run.mixed
     /\ run.pre <= 1)
        => ActiveCount(activeCheckIns, "test-user-id") <= 1

\* C3: of the calls checkOutFromSpot(id) made after the check-in that produced
\* id, exactly the first returns true and every later one returns false.
C3_CheckOutOnce ==
    [][ (ev'.op = "checkOut" /\ ev'.id \in created)
            => (ev'.res <=> ev'.id \notin checkedOut) ]_vars

\* C4: checkOutFromSpot(id) with an id that matches no record of any active
\* list returns false, leaves the active lists, the per-spot counts and the
\* shared store unchanged, and sends no message.
C4_UnknownIdNoOp ==
    [][ (ev'.op = "checkOut" /\ ev'.id \notin ActiveIds)
            => /\ ~ev'.res
               /\ activeCheckIns' = activeCheckIns
               /\ activeSurferCounts' = activeSurferCounts
               /\ globalSurferCounts' = globalSurferCounts
               /\ userCheckIns' = userCheckIns
               /\ EchoTimers(timers') = EchoTimers(timers)
               /\ pubs' = << >> ]_vars

\* A connected transport, a record in the registry, and a check-out of an
\* identifier that was checked out before.
C4_Witness ==
    /\ ev.op = "checkOut"
    /\ ~ev.res
    /\ ev.id \in checkedOut
    /\ isConnected

HasReconnectTimer == \E i \in 1..Len(timers) : timers[i].kind = "reconnect"

\* The delays the specification gives for the retries after failures 1..5.
ExpectedDelays == << 2000, 4000, 8000, 16000, 30000 >>

C6_NoRetryAfterMaxFailures ==
    (ev.op = "fail" /\ ev.k = MAX_RECONNECT_ATTEMPTS) =>
        (ev.sched = -1 /\ ~HasReconnectTimer)

\* C7 (as claimed): from an explicit disconnect() until the next explicit
\* connect(), no reconnect timer fires and the transport is not connected.
C7_DisconnectCancelsRetry ==
    callerDisconnected => (~firedAfterDisconnect /\ ~isConnected)

\* C8: a successful connection outcome leaves the attempt counter at 0 and the
\* backoff delay at 2000 ms and broadcasts CONNECTION_STATUS {connected: true}.
C8_SuccessResets ==
    ev.op = "connected" =>
        /\ isConnected
        /\ reconnectAttempts = 0
        /\ reconnectDelay = 2000
        /\ Len(pubs) = 1
        /\ pubs[1].msg.type = CONNECTION_STATUS
        /\ pubs[1].msg.connected

C8_Witness == ev.op = "connected" /\ ev.before = 3 /\ ev.sched = 16000

\* C9 (as claimed): the payload broadcast by the failure that exhausts the
\* retries differs from every payload broadcast by a failure that scheduled one.
C9_TerminalDistinct ==
    (ev.op = "fail" /\ ev.sched = -1) =>
        \A i \in 1..Len(pubs) : pubs[i].msg \notin retryPayloads

\* C10: a callback that unsubscribed its only registration from inside its own
\* callback is called by no later publish; every publish calls all callbacks
\* registered at its start, in order; and the other callbacks stay registered.
Others(list) == SelectSeq(list, LAMBDA c : c # "cbSelf")

C10_SelfUnsubscribe ==
    \A i \in 1..Len(pubs) :
        /\ pubs[i].stale = {}
        /\ pubs[i].invoked = pubs[i].before[pubs[i].msg.type] \o pubs[i].before[WILDCARD]
        /\ \A key \in SubscriberKeys :
               Others(subscribers[key]) = Others(pubs[Len(pubs)].before[key])

\* cbSelf unsubscribed itself during this publish and a callback after it in
\* the list was still called.
C10_Witness ==
    /\ Len(pubs) = 1
    /\ "cbSelf" \in gone
    /\ \E k \in 1..(Len(pubs[1].invoked) - 1) : pubs[1].invoked[k] = "cbSelf"

\* C11 (as claimed): a callback that was unsubscribed while a publish was in
\* flight, before that publish reached it, is not called by that publish: no
\* publish calls a callback that has no registration left for its message.
C11_NoCallAfterUnsubscribe ==
    \A i \in 1..Len(pubs) : pubs[i].late = {}

\* C12: when a subscriber callback throws during a broadcast, the broadcast
\* still calls every callback of its list, no exception leaves it, and the
\* transport is left as the outcome alone dictates: connected with the attempt
\* counter at 0 and the delay at its floor after a success; not connected,
\* with the counter raised by one, the retry timer set and the delay doubled
\* after a failure that retries.
C12_ThrowingCallbackContained ==
    /\ \A i \in 1..Len(pubs) : ~pubs[i].thrown /\ pubs[i].invoked = pubs[i].snapshot
    /\ ev.op = "connected" =>
           /\ isConnected
           /\ reconnectAttempts = 0
           /\ reconnectDelay = RECONNECT_DELAY_FLOOR
    /\ (ev.op = "fail" /\ ev.before < MAX_RECONNECT_ATTEMPTS) =>
           /\ ~isConnected
           /\ reconnectAttempts = ev.before + 1
           /\ reconnectInterval = "set"
           /\ ev.sched > 0
           /\ timers[Len(timers)] = ReconnectTimer(ev.sched)
           /\ reconnectDelay = Min(2 * ev.sched, MAX_RECONNECT_DELAY)
           /\ Len(pubs) = 2

\* A failure whose first broadcast called cbThrow, logged its exception, and
\* went on to call cbA.
C12_Witness ==
    /\ ev.op = "fail"
    /\ Len(pubs) = 2
    /\ pubs[1].logged = {"cbThrow"}
    /\ pubs[1].invoked = << "cbThrow", "cbA" >>
    /\ HasReconnectTimer

\* C13: send(message) while the transport is not connected is a no-op: it
\* sets no timer, so nothing of the message is left that could be delivered
\* later, it calls no subscriber, and it leaves the shared store and the
\* subscriber lists as they were.
C13_SendNotConnectedNoOp ==
    [][ (ev'.op = "send" /\ ~isConnected)
            => /\ timers' = timers
               /\ pubs' = << >>
               /\ globalSurferCounts' = globalSurferCounts
               /\ userCheckIns' = userCheckIns
               /\ subscribers' = subscribers ]_vars

\* send() after a disconnect(), with a wildcard subscriber registered and
\* nothing in flight.
C13_Witness ==
    /\ ev.op = "send"
    /\ ~ev.res
    /\ callerDisconnected
    /\ Len(subscribers[WILDCARD]) > 0
    /\ timers = << >>

\* C14 (as claimed): in any connection state, a successful checkInToSpot
\* leaves a SURFER_COUNT_UPDATE with the registry's count and a
\* CHECK_IN_STATUS_CHANGE (isCheckedIn = true) for its spot on their way to
\* the subscribers and the shared store; nothing else would deliver them or
\* bring the store's count to the registry's later.
C14_CheckInPublishes ==
    (ev.op = "checkIn" /\ ev.res) =>
        /\ \E i \in 1..Len(timers) :
               timers[i] = EchoTimer(SurferCountUpdateMessage(ev.spotId,
                                         activeSurferCounts[ev.spotId]))
        /\ \E i \in 1..Len(timers) :
               timers[i] = EchoTimer(CheckInStatusMessage(ev.userId, ev.spotId, TRUE))

\* C15 (as claimed): a record whose expiration time has passed is treated as
\* inactive: getActiveCheckInForUser and getActiveCheckInForUserAnywhere do
\* not return it.
C15_ExpiredIsInactive ==
    (ev.op \in { "getActiveCheckInForUser", "getActiveCheckInForUserAnywhere" } /\ ev.res) =>
        \A spotId \in DOMAIN activeCheckIns :
            \A i \in 1..Len(activeCheckIns[spotId]) :
                activeCheckIns[spotId][i].id = ev.id
                    => activeCheckIns[spotId][i].expiresAt >= now

\* C16 (as claimed): when a check-in of the workflow and one from outside it
\* were in flight together, started with at most one active record, more than
\* one active record of the user does not outlast the next read: after a
\* completed getActiveCheckInForUser, getActiveCheckInForUserAnywhere or
\* getSurferCount the user has at most one active record.
C16_ReadReconciles ==
    (/\ ev.op \in { "getActiveCheckInForUser", "getActiveCheckInForUserAnywhere",
                    "getSurferCount" }
     /\ run.mixed
     /\ run.pre <= 1)
        => ActiveCount(activeCheckIns, "test-user-id") <= 1

\* C17: once no message is in flight after resetAllCheckInsAndCounts(), and
\* until the next check-in completes, every spot's active list is empty and
\* every spot's count is 0 in the registry and in the store, whatever the
\* connection state was and whatever was sent before the reset.
C17_ResetLeavesAllZero ==
    (sinceReset /\ EchoTimers(timers) = << >>)
        => \A s \in KnownSpots :
              /\ activeCheckIns[s] = << >>
              /\ activeSurferCounts[s] = 0
              /\ getGlobalSurferCount(s) = 0

\* C18: within one publish, the callbacks registered for the message, under
\* its type or under the wildcard, are called once per registration in the
\* order in which they were registered.  Stated for the publishes that start
\* with every registration made so far still in place.
C18_RegistrationOrder ==
    \A i \in 1..Len(pubs) :
        LET cbs(hs) == [ k \in 1..Len(hs) |-> hs[k].cb ]
            under(key) == cbs(SelectSeq(handles, LAMBDA h : h.key = key))
            forMessage == cbs(SelectSeq(handles,
                              LAMBDA h : h.key \in { pubs[i].msg.type, WILDCARD }))
        IN  (\A key \in SubscriberKeys : pubs[i].before[key] = under(key))
                => pubs[i].invoked = forMessage

\* C19: the function subscribe() returned removes the registration that call
\* made and no other: called again, after it has been called once, it
\* removes nothing, whatever was registered in between.
C19_UnsubscribeRemovesOwn ==
    [][ (ev'.op = "unsubscribe" /\ ev'.res) => subscribers' = subscribers ]_vars

\* C20: updateLastActivity() logs the user out (isAuthenticated false, token
\* and refreshToken null) when more than 24 hours have passed since
\* lastActivity; otherwise it leaves isAuthenticated and both tokens as they
\* were and sets lastActivity to the current time.
C20_SessionTimeout ==
    [][ ev'.op = "updateLastActivity"
          => IF now - auth.lastActivity > SESSION_TIMEOUT
             THEN /\ ~auth'.isAuthenticated
                  /\ auth'.token = Null
                  /\ auth'.refreshToken = Null
             ELSE /\ auth'.isAuthenticated = auth.isAuthenticated
                  /\ auth'.token = auth.token
                  /\ auth'.refreshToken = auth.refreshToken
                  /\ auth'.lastActivity = now ]_vars

\* A logged-in user whose last activity is more than 24 hours old has been
\* logged out by updateLastActivity().
C20_Witness ==
    /\ ev.op = "updateLastActivity"
    /\ ev.k = 1
    /\ ev.res
    /\ now - ev.before > SESSION_TIMEOUT
    /\ ~auth.isAuthenticated
    /\ auth.token = Null

\* C21: when refreshAuthToken() fails, for want of a refresh token or because
\* the request is rejected, the store is logged out (isAuthenticated false,
\* token and refreshToken null); when it succeeds, token and refreshToken are
\* the returned pair and the user is authenticated.
C21_RefreshOutcome ==
    ev.op = "refreshAuthToken"
        => IF ev.res
           THEN /\ auth.token = ev.before
                /\ auth.refreshToken = ev.before
                /\ auth.isAuthenticated
           ELSE /\ ~auth.isAuthenticated
                /\ auth.token = Null
                /\ auth.refreshToken = Null

\* C22: in the cross-spot workflow, when checkOutFromSpot of the record at the
\* other spot returns false, checkInToSpot is not called: the step starts no
\* call, and leaves the registry and the store as they were.
C22_NoCheckInAfterFailedCheckOut ==
    [][ (ev'.op = "checkOut" /\ ev'.cont = "switch" /\ ~ev'.res)
          => /\ \E i \in 1..Len(timers) : timers' = RemoveAt(timers, i)
             /\ activeCheckIns' = activeCheckIns
             /\ activeSurferCounts' = activeSurferCounts
             /\ userCheckIns' = userCheckIns
             /\ globalSurferCounts' = globalSurferCounts ]_vars

\* The alert's check-out has returned false and the run has ended with no
\* check-in pending.
C22_Witness ==
    /\ ev.op = "checkOut"
    /\ ev.cont = "switch"
    /\ ~ev.res
    /\ ~run.active
    /\ ~screen.isLoading
    /\ \A i \in 1..Len(timers) : timers[i].kind # "checkIn"

\* C23: a getSurferCount that overlaps a check-in or check-out of the same
\* spot, or the delivery of its message, does not undo it: once no call is
\* pending and no message is in flight, the registry count, the store count
\* and the number of active records of every spot agree.
C23_CountReadKeepsMutation ==
    (isConnected /\ ApiPending = {} /\ EchoTimers(timers) = << >>)
        => \A s \in KnownSpots :
              /\ activeSurferCounts[s] = Len(activeCheckIns[s])
              /\ getGlobalSurferCount(s) = Len(activeCheckIns[s])

\* C24: no two check-in records held in the registry at the same time have
\* the same identifier, within one spot's list or across lists.
C24_UniqueIds ==
    \A s1, s2 \in DOMAIN activeCheckIns :
        \A i \in 1..Len(activeCheckIns[s1]), j \in 1..Len(activeCheckIns[s2]) :
            activeCheckIns[s1][i].id = activeCheckIns[s2][j].id => (s1 = s2 /\ i = j)

\* C25: in every state of the transport the attempt counter is within
\* 0..MAX_RECONNECT_ATTEMPTS and the backoff delay within 2000..30000 ms, and
\* no step other than a successful connection lowers either of them.
C25_CounterAndDelayBounds ==
    [][ /\ reconnectAttempts \in 0..MAX_RECONNECT_ATTEMPTS
        /\ reconnectAttempts' \in 0..MAX_RECONNECT_ATTEMPTS
        /\ reconnectDelay \in RECONNECT_DELAY_FLOOR..MAX_RECONNECT_DELAY
        /\ reconnectDelay' \in RECONNECT_DELAY_FLOOR..MAX_RECONNECT_DELAY
        /\ (ev'.op # "connected"
               => /\ reconnectAttempts' >= reconnectAttempts
                  /\ reconnectDelay' >= reconnectDelay) ]_vars

\* The last retry has been scheduled: the counter is at its maximum and the
\* delay at its cap, and a further failure has left both there.
C25_Witness ==
    /\ ev.op = "fail"
    /\ ev.before = MAX_RECONNECT_ATTEMPTS
    /\ reconnectAttempts = MAX_RECONNECT_ATTEMPTS
    /\ reconnectDelay = MAX_RECONNECT_DELAY

\* C26: getActiveCheckInForUserAnywhere(userId) returns a record if and only
\* if some spot's active list holds an active record of that user, and the
\* record it returns is in the list of the spot it names and belongs to that
\* user.
C26_AnywhereFindsOwnRecord ==
    ev.op = "getActiveCheckInForUserAnywhere" =>
        /\ ev.res <=> ActiveCount(activeCheckIns, ev.userId) > 0
        /\ ev.res =>
              /\ ev.spotId \in DOMAIN activeCheckIns
              /\ \E i \in 1..Len(activeCheckIns[ev.spotId]) :
                     activeCheckIns[ev.spotId][i].id = ev.id
              /\ \A i \in 1..Len(activeCheckIns[ev.spotId]) :
                     activeCheckIns[ev.spotId][i].id = ev.id
                         => /\ activeCheckIns[ev.spotId][i].userId = ev.userId
                            /\ activeCheckIns[ev.spotId][i].isActive

\* The user's record at the second spot has been returned, past another
\* user's record at the first spot.
C26_Witness ==
    /\ ev.op = "getActiveCheckInForUserAnywhere"
    /\ ev.res
    /\ ev.userId = "test-user-id"
    /\ ev.spotId = SpotOrder[2]
    /\ Len(activeCheckIns[SpotOrder[1]]) > 0
    /\ activeCheckIns[SpotOrder[1]][1].userId = "other-user"

\* C27: at any time at most one automatic reconnect timer is pending.
C27_OneReconnectTimer ==
    Len(SelectSeq(timers, LAMBDA t : t.kind = "reconnect")) <= 1

\* The attempts started by retries that are still pending.
RetryAttempts(ts) == Len(SelectSeq(ts, LAMBDA t : t = RetryConnectTimer))

\* C28: where failures arise only from connect(), an attempt fails only at
\* attempt counter 0, no attempt started by an automatic retry fails, the
\* counter never exceeds 1 and the retries are never exhausted.
C28_RetrySucceeds ==
    [][ /\ reconnectAttempts' <= 1
        /\ ev'.op = "fail"
              => /\ ev'.before = 0
                 /\ ev'.k <= MAX_RECONNECT_ATTEMPTS
                 /\ RetryAttempts(timers') = RetryAttempts(timers) ]_vars

\* C29: a SURFER_COUNT_UPDATE or CHECK_IN_STATUS_CHANGE message is handled
\* by the transport, written to the store and published to the subscribers,
\* only while the transport is connected.
C29_NoDeliveryWhileDisconnected ==
    \A i \in 1..Len(pubs) :
        pubs[i].msg.type \in { SURFER_COUNT_UPDATE, CHECK_IN_STATUS_CHANGE } => isConnected

\* C30: right after updateUserCheckedInStatus(s, true), for any spot s, known
\* to the store or not, s is the one and only spot isUserCheckedInAt answers
\* true for; updateUserCheckedInStatus(s, false) changes the flag of s only.
C30_OnlyOneCheckedIn ==
    [][ ev'.op = "updateUserCheckedInStatus"
          => IF ev'.res
             THEN \A s \in StoreSpots :
                      GetOr(userCheckIns', s, FALSE) <=> (s = ev'.spotId)
             ELSE /\ ~GetOr(userCheckIns', ev'.spotId, FALSE)
                  /\ \A s \in StoreSpots \ {ev'.spotId} :
                         GetOr(userCheckIns', s, FALSE) = GetOr(userCheckIns, s, FALSE) ]_vars

\* C30, the half that holds: what updateUserCheckedInStatus(s, false) does,
\* and updateUserCheckedInStatus(s, true) for a spot the store knows.
C30_KnownSpotOrFalse ==
    [][ (ev'.op = "updateUserCheckedInStatus" /\ (ev'.spotId \in DOMAIN userCheckIns \/ ~ev'.res))
          => IF ev'.res
             THEN \A s \in StoreSpots :
                      GetOr(userCheckIns', s, FALSE) <=> (s = ev'.spotId)
             ELSE /\ ~GetOr(userCheckIns', ev'.spotId, FALSE)
                  /\ \A s \in StoreSpots \ {ev'.spotId} :
                         GetOr(userCheckIns', s, FALSE) = GetOr(userCheckIns, s, FALSE) ]_vars

====
